---- MODULE Spec2Model ----
(***************************************************************************)
(* Model of source_s3/source_files_abstract/formats/csv_parser.py:         *)
(* the line-boundary scanner (__find_line_end), the chunk splitter         *)
(* (__create_chunk), the chunked branch of stream_records, the batch       *)
(* transposition of __read_stream_by_chunks and schema inference           *)
(* (_get_schema_dict).                                                     *)
(*                                                                         *)
(* Byte counts are scaled down so that the state space is finite: the      *)
(* ratios of the program's sizes are kept (scanner read < block read <     *)
(* MAX_CHUNK_SIZE, MAX_CHUNK_SIZE a multiple of both reads).               *)
(***************************************************************************)
EXTENDS Integers, Sequences, FiniteSets, TLC

(* ------------------------------ sizes --------------------------------- *)

\* MAX_CHUNK_SIZE = 50.0 * 1024 ** 2 bytes, scaled to 6 bytes.
MAX_CHUNK_SIZE == 6
\* file.read(1024) of __find_line_end, scaled to 2 bytes.
SCAN_READ == 2
\* file.read(1024 * 1024) of __create_chunk, scaled to 3 bytes.
BLOCK_READ == 3
\* buffer of the writer returned by open(temp_file, "wb"), scaled to 2 bytes:
\* os.stat sees only the bytes the writer has passed on to the file.
WRITE_BUFFER == 2

\* longest source stream explored
MaxLen == 14
\* most chunks a run is followed for
MaxChunks == 8

NL == "\n"
Byte == {"a", NL}

(* ----------------------------- sequences ------------------------------ *)

Take(s, n) == SubSeq(s, 1, IF n < Len(s) THEN n ELSE Len(s))
Drop(s, n) == SubSeq(s, n + 1, Len(s))

\* bytes.find(b"\n"): 0-based index of the first terminator, -1 when absent
Find(s) ==
    IF \E i \in 1..Len(s) : s[i] = NL
    THEN (CHOOSE i \in 1..Len(s) : s[i] = NL /\ \A j \in 1..(i - 1) : s[j] # NL) - 1
    ELSE -1

\* file.read(n) at position p: at most n bytes, empty at end of stream
Read(src, p, n) == SubSeq(src, p + 1, IF p + n < Len(src) THEN p + n ELSE Len(src))

VARIABLES
    \* ---- __create_chunk (a generator) and the stream it reads
    source,        \* the bytes of `file`
    pos,           \* read position of `file`
    headers,       \* local `headers`
    tail_part,     \* local `tail_part`
    chunk,         \* local `chunk` (None is modelled as the empty sequence: both are falsy)
    chunk_number,  \* local `chunk_number`
    gen,           \* "created" | "suspended" (at the yield) | "returned" | "raised"
    temp_file,     \* content of TMP_FOLDER/chunk.csv
    temp_exists,   \* os.path.exists(temp_file)
    chunks,        \* history: the content of every chunk yielded so far
    marks,         \* history: for every chunk yielded, `pos` before and after it was built
    \* ---- the chunked branch of stream_records (a generator)
    pcS,           \* "off" | "iter" (asking the splitter) | "reading" (inside yield from)
                   \* | "done" | "failed" (an exception left the generator) | "closed"
    remaining,     \* rows of the current chunk not yet yielded
    out,           \* records yielded to the caller so far
    desc_open,     \* temp_descriptor is open
    \* ---- __read_stream_by_chunks (a generator) over the engine's batches
    batches,       \* the batches streaming_reader.read_next_batch() returns, in order
    batch_no,      \* how many batches have been read
    batch_rows,    \* records of the current batch not yet yielded
    records,       \* records yielded so far
    pcR,           \* "off" | "next" (at read_next_batch) | "rows" (in the for loop) | "done"
    \* ---- _get_schema_dict
    file,          \* the bytes of the stream schema inference reads
    file_pos,      \* its read position
    infer_datatypes, \* self.format.infer_datatypes
    dur,           \* how long the isolated run takes on the first and on the second attempt
    worker_fails,  \* the isolated run ends with an exception of its own
    attempts,      \* isolated processes started
    timeout,       \* the timeout of the attempt under way
    pcI,           \* "off" | "call" | "running" | "returned" | "raised" | "timeout_error"
    result         \* the schema dict returned, NoSchema when none

splitVars == <<source, pos, headers, tail_part, chunk, chunk_number, gen,
               temp_file, temp_exists, chunks, marks>>
chunkedVars == <<pcS, remaining, out, desc_open>>
readVars == <<batches, batch_no, batch_rows, records, pcR>>
inferVars == <<file, file_pos, infer_datatypes, dur, worker_fails, attempts, timeout,
               pcI, result>>

vars == <<splitVars, chunkedVars, readVars, inferVars>>

(* -------------------------- __find_line_end --------------------------- *)

\* the scanner without its size check
RECURSIVE ScanLoopNoLimit(_, _, _)
ScanLoopNoLimit(src, p, left_part) ==
    LET got == Read(src, p, SCAN_READ) IN
    IF got = <<>>
    THEN [raised |-> FALSE, left |-> <<>>, right |-> <<>>, pos |-> p]
    ELSE LET acc   == left_part \o got
             found == Find(acc)
         IN  IF found > -1
             THEN [raised |-> FALSE, left |-> Take(acc, found),
                   right |-> Drop(acc, found), pos |-> p + Len(got)]
             ELSE ScanLoopNoLimit(src, p + Len(got), acc)

RECURSIVE ScanLoop(_, _, _)
ScanLoop(src, p, left_part) ==
    LET got == Read(src, p, SCAN_READ) IN
    IF got = <<>>
    THEN [raised |-> FALSE, left |-> <<>>, right |-> <<>>, pos |-> p]
    ELSE LET acc == left_part \o got
             p2  == p + Len(got)
         IN  IF Len(acc) > MAX_CHUNK_SIZE
             THEN [raised |-> TRUE, left |-> <<>>, right |-> <<>>, pos |-> p2]
             ELSE LET found == Find(acc) IN
                  IF found > -1
                  THEN [raised |-> FALSE, left |-> Take(acc, found),
                        right |-> Drop(acc, found), pos |-> p2]
                  ELSE ScanLoop(src, p2, acc)

FindLineEnd(src, p) == ScanLoop(src, p, <<>>)

(* --------------------- the buffered writer `tf` ----------------------- *)

NewWriter == [data |-> <<>>, pending |-> 0]

\* tf.write(b): b is kept in the writer's buffer when it fits; otherwise the
\* buffer is flushed and b goes straight to the file when it is larger than
\* the buffer, into the emptied buffer when it is not
TfWrite(w, b) ==
    [data    |-> w.data \o b,
     pending |-> IF w.pending + Len(b) <= WRITE_BUFFER THEN w.pending + Len(b)
                 ELSE IF Len(b) > WRITE_BUFFER THEN 0
                 ELSE Len(b)]

\* os.stat(temp_file).st_size while tf is open
StSize(w) == Len(w.data) - w.pending

(* --------------------------- __create_chunk --------------------------- *)

\* the block loop without its size test: it stops at end of stream only
RECURSIVE FillLoopNoLimit(_, _, _, _)
FillLoopNoLimit(src, p, w, c) ==
    LET got == Read(src, p, BLOCK_READ) IN
    IF got = <<>>
    THEN [w |-> w, pos |-> p, chunk |-> <<>>]
    ELSE FillLoopNoLimit(src, p + Len(got), TfWrite(w, got), got)

\* the block loop leaving `chunk` as it was when the stream is at its end
RECURSIVE FillLoopStale(_, _, _, _)
FillLoopStale(src, p, w, c) ==
    IF StSize(w) < MAX_CHUNK_SIZE
    THEN LET got == Read(src, p, BLOCK_READ) IN
         IF got = <<>>
         THEN [w |-> w, pos |-> p, chunk |-> c]
         ELSE FillLoopStale(src, p + Len(got), TfWrite(w, got), got)
    ELSE [w |-> w, pos |-> p, chunk |-> c]

\* while os.stat(temp_file).st_size < MAX_CHUNK_SIZE: read a block, stop at
\* end of stream, else write it
RECURSIVE FillLoop(_, _, _, _)
FillLoop(src, p, w, c) ==
    IF StSize(w) < MAX_CHUNK_SIZE
    THEN LET got == Read(src, p, BLOCK_READ) IN
         IF got = <<>>
         THEN [w |-> w, pos |-> p, chunk |-> <<>>]
         ELSE FillLoop(src, p + Len(got), TfWrite(w, got), got)
    ELSE [w |-> w, pos |-> p, chunk |-> c]

\* one pass of the body of `while True` up to the yield
BuildChunk(src, p, h, t, c) ==
    LET w0   == TfWrite(TfWrite(NewWriter, h), t)
        f    == FillLoop(src, p, w0, c)
        scan == FindLineEnd(src, f.pos)
    IN  IF f.chunk # <<>>
        THEN IF scan.raised
             THEN [raised |-> TRUE, content |-> f.w.data, pos |-> scan.pos,
                   chunk |-> f.chunk, tail_part |-> t]
             ELSE [raised |-> FALSE, content |-> f.w.data \o scan.left, pos |-> scan.pos,
                   chunk |-> f.chunk, tail_part |-> scan.right]
        ELSE [raised |-> FALSE, content |-> f.w.data, pos |-> f.pos,
              chunk |-> f.chunk, tail_part |-> t]

\* first next() on the generator: the header scan, then the first chunk
GenStart ==
    LET hs == FindLineEnd(source, 0) IN
    IF hs.raised
    THEN [gen |-> "raised", pos |-> hs.pos, headers |-> headers, tail_part |-> tail_part,
          chunk |-> chunk, chunk_number |-> 1, temp_file |-> temp_file,
          temp_exists |-> temp_exists, yielded |-> FALSE, from |-> 0]
    ELSE LET b == BuildChunk(source, hs.pos, hs.left, hs.right, <<>>) IN
         [gen |-> IF b.raised THEN "raised" ELSE "suspended",
          pos |-> b.pos, headers |-> hs.left, tail_part |-> b.tail_part,
          chunk |-> b.chunk, chunk_number |-> 1, temp_file |-> b.content,
          temp_exists |-> TRUE, yielded |-> ~b.raised, from |-> hs.pos]

\* next() on the generator suspended at the yield
GenResume ==
    IF chunk = <<>>
    THEN [gen |-> "returned", pos |-> pos, headers |-> headers, tail_part |-> tail_part,
          chunk |-> chunk, chunk_number |-> chunk_number, temp_file |-> temp_file,
          temp_exists |-> temp_exists, yielded |-> FALSE, from |-> pos]
    ELSE LET b == BuildChunk(source, pos, headers, tail_part, chunk) IN
         [gen |-> IF b.raised THEN "raised" ELSE "suspended",
          pos |-> b.pos, headers |-> headers, tail_part |-> b.tail_part,
          chunk |-> b.chunk, chunk_number |-> chunk_number + 1, temp_file |-> b.content,
          temp_exists |-> TRUE, yielded |-> ~b.raised, from |-> pos]

\* the generator's variables after a step r
GenAssign(r) ==
    /\ gen' = r.gen
    /\ pos' = r.pos
    /\ headers' = r.headers
    /\ tail_part' = r.tail_part
    /\ chunk' = r.chunk
    /\ chunk_number' = r.chunk_number
    /\ temp_file' = r.temp_file
    /\ chunks' = IF r.yielded THEN Append(chunks, r.temp_file) ELSE chunks
    /\ marks' = IF r.yielded THEN Append(marks, <<r.from, r.pos>>) ELSE marks

(* ------------- the splitter driven by a consumer that keeps asking ---- *)

Sources == UNION {[1..n -> Byte] : n \in 0..MaxLen}

ChunkedOff ==
    /\ pcS = "off"
    /\ remaining = <<>>
    /\ out = <<>>
    /\ desc_open = FALSE

ReaderOff ==
    /\ batches = <<>>
    /\ batch_no = 0
    /\ batch_rows = <<>>
    /\ records = <<>>
    /\ pcR = "off"

NoSchema == [none |-> TRUE]

InferOff ==
    /\ file = <<>>
    /\ file_pos = 0
    /\ infer_datatypes = FALSE
    /\ dur = <<0, 0>>
    /\ worker_fails = FALSE
    /\ attempts = 0
    /\ timeout = 0
    /\ pcI = "off"
    /\ result = NoSchema

SplitterCreated ==
    /\ pos = 0
    /\ headers = <<>>
    /\ tail_part = <<>>
    /\ chunk = <<>>
    /\ chunk_number = 1
    /\ gen = "created"
    /\ temp_file = <<>>
    /\ temp_exists = FALSE
    /\ chunks = <<>>
    /\ marks = <<>>

InitSplit ==
    /\ source \in Sources
    /\ SplitterCreated
    /\ ChunkedOff
    /\ ReaderOff
    /\ InferOff

FirstChunk ==
    /\ gen = "created"
    /\ GenAssign(GenStart)
    /\ temp_exists' = GenStart.temp_exists
    /\ UNCHANGED <<source, chunkedVars, readVars, inferVars>>

NextChunk ==
    /\ gen = "suspended"
    /\ chunk_number < MaxChunks
    /\ GenAssign(GenResume)
    /\ temp_exists' = GenResume.temp_exists
    /\ UNCHANGED <<source, chunkedVars, readVars, inferVars>>

NextSplit == FirstChunk \/ NextChunk

SpecSplit == InitSplit /\ [][NextSplit]_vars

(* ------------------ what the CSV engine reads from a stream ----------- *)

\* the lines of a document, split at the terminators
RECURSIVE SplitLines(_)
SplitLines(s) ==
    IF Find(s) = -1 THEN <<s>>
    ELSE <<Take(s, Find(s))>> \o SplitLines(Drop(s, Find(s) + 1))

\* pa_csv.open_csv over a header-bearing document: the first line names the
\* columns, every later non-empty line is one row, the last one with or
\* without a terminator
Rows(doc) == SelectSeq(Tail(SplitLines(doc)), LAMBDA l : l # <<>>)

RECURSIVE Concat(_)
Concat(ss) == IF ss = <<>> THEN <<>> ELSE Head(ss) \o Concat(Tail(ss))

(* ------------------- stream_records, the chunked branch --------------- *)

InitChunked ==
    /\ source \in Sources
    /\ SplitterCreated
    /\ pcS = "iter"
    /\ remaining = <<>>
    /\ out = <<>>
    /\ desc_open = FALSE
    /\ ReaderOff
    /\ InferOff

\* for temp_descriptor in self.__create_chunk(temp_file, file): the splitter is
\* resumed; a chunk is handed to the reader, or the loop ends, or the
\* splitter's exception passes through `finally`
AskChunk ==
    /\ pcS = "iter"
    /\ gen \in {"created", "suspended"}
    /\ chunk_number < MaxChunks
    /\ LET r == IF gen = "created" THEN GenStart ELSE GenResume IN
       /\ GenAssign(r)
       /\ IF r.yielded
          THEN /\ pcS' = "reading"
               /\ remaining' = Rows(r.temp_file)
               /\ desc_open' = TRUE
               /\ temp_exists' = r.temp_exists
          ELSE /\ pcS' = IF r.gen = "returned" THEN "done" ELSE "failed"
               /\ remaining' = <<>>
               /\ desc_open' = FALSE
               /\ temp_exists' = FALSE
    /\ UNCHANGED <<source, out, readVars, inferVars>>

\* yield from self.__read_stream_by_chunks(temp_descriptor): one record
YieldRecord ==
    /\ pcS = "reading"
    /\ remaining # <<>>
    /\ out' = Append(out, Head(remaining))
    /\ remaining' = Tail(remaining)
    /\ UNCHANGED <<splitVars, pcS, desc_open, readVars, inferVars>>

\* the reader is exhausted: temp_descriptor.close(), back to the for loop
ChunkRead ==
    /\ pcS = "reading"
    /\ remaining = <<>>
    /\ desc_open' = FALSE
    /\ pcS' = "iter"
    /\ UNCHANGED <<splitVars, remaining, out, readVars, inferVars>>

\* the exception leaving the loop with no `finally` around it
ParseErrorNoFinally ==
    /\ pcS = "reading"
    /\ pcS' = "failed"
    /\ remaining' = <<>>
    /\ UNCHANGED <<splitVars, out, desc_open, readVars, inferVars>>

\* the engine rejects the chunk at the row it is at: the exception leaves the
\* for loop through `finally`, which removes the file (os.remove unlinks a
\* file that still has an open descriptor); temp_descriptor.close() is skipped
ParseError ==
    /\ pcS = "reading"
    /\ pcS' = "failed"
    /\ temp_exists' = FALSE
    /\ remaining' = <<>>
    /\ UNCHANGED <<source, pos, headers, tail_part, chunk, chunk_number, gen,
                   temp_file, chunks, marks, out, desc_open, readVars, inferVars>>

\* the caller stops early and closes the generator, suspended at a yield of
\* a record: GeneratorExit passes through `finally`
ConsumerStops ==
    /\ pcS = "reading"
    /\ out # <<>>
    /\ pcS' = "closed"
    /\ temp_exists' = FALSE
    /\ remaining' = <<>>
    /\ UNCHANGED <<source, pos, headers, tail_part, chunk, chunk_number, gen,
                   temp_file, chunks, marks, out, desc_open, readVars, inferVars>>

NextChunked == AskChunk \/ YieldRecord \/ ChunkRead \/ ParseError \/ ConsumerStops

SpecChunked == InitChunked /\ [][NextChunked]_vars

(* ----------------------- __read_stream_by_chunks ---------------------- *)

\* most rows in a batch, most batches in a stream
MaxRows == 2
MaxBatches == 2

Schemas == {<<"id">>, <<"id", "name">>}
Tags == {"x", "y"}

\* a batch as the engine holds it: the schema's column names, and for every
\* column the list of its values, all of one length. The value of column i in
\* row r of a batch tagged t is <<t, i, r>>, so that no two cells of a batch
\* hold the same value
BatchOf(schema, n, t) ==
    [schema  |-> schema,
     columns |-> [i \in 1..Len(schema) |-> [r \in 1..n |-> <<t, i, r>>]]]
Batch == {BatchOf(sc, n, t) : sc \in Schemas, n \in 0..MaxRows, t \in Tags}

Range(s) == {s[i] : i \in 1..Len(s)}
Min(S) == CHOOSE x \in S : \A y \in S : x <= y
Max(S) == CHOOSE x \in S : \A y \in S : x >= y

\* batch.to_pydict(): column name -> list of values
ToPyDict(batch) ==
    [name \in Range(batch.schema) |->
        batch.columns[Max({i \in 1..Len(batch.schema) : batch.schema[i] = name})]]

\* zip(*columnwise_record_values): one tuple per row, as many as the shortest list
Zip(columnwise) ==
    IF columnwise = <<>> THEN <<>>
    ELSE [r \in 1..Min({Len(columnwise[i]) : i \in 1..Len(columnwise)}) |->
             [i \in 1..Len(columnwise) |-> columnwise[i][r]]]

\* the dict comprehension with its range one short
MakeRecordOneShort(batch_columns, record_values) ==
    [name \in {batch_columns[i] : i \in 1..(Len(batch_columns) - 1)} |->
        record_values[Max({i \in 1..(Len(batch_columns) - 1) : batch_columns[i] = name})]]

\* {batch_columns[i]: record_values[i] for i in range(len(batch_columns))}
MakeRecord(batch_columns, record_values) ==
    [name \in Range(batch_columns) |->
        record_values[Max({i \in 1..Len(batch_columns) : batch_columns[i] = name})]]

\* the records the for loop yields for one batch, in order
RecordsOfBatch(batch) ==
    LET batch_dict    == ToPyDict(batch)
        batch_columns == batch.schema
        columnwise    == [i \in 1..Len(batch_columns) |-> batch_dict[batch_columns[i]]]
        zipped        == Zip(columnwise)
    IN  [r \in 1..Len(zipped) |-> MakeRecord(batch_columns, zipped[r])]

InitRead ==
    /\ batches \in UNION {[1..n -> Batch] : n \in 0..MaxBatches}
    /\ batch_no = 0
    /\ batch_rows = <<>>
    /\ records = <<>>
    /\ pcR = "next"
    /\ source = <<>>
    /\ SplitterCreated
    /\ ChunkedOff
    /\ InferOff

\* batch = streaming_reader.read_next_batch(), no StopIteration
ReadNextBatch ==
    /\ pcR = "next"
    /\ batch_no < Len(batches)
    /\ batch_no' = batch_no + 1
    /\ batch_rows' = RecordsOfBatch(batches[batch_no + 1])
    /\ pcR' = IF batch_rows' = <<>> THEN "next" ELSE "rows"
    /\ UNCHANGED <<batches, records, splitVars, chunkedVars, inferVars>>

\* yield of one record of the batch
YieldRow ==
    /\ pcR = "rows"
    /\ records' = Append(records, Head(batch_rows))
    /\ batch_rows' = Tail(batch_rows)
    /\ pcR' = IF batch_rows' = <<>> THEN "next" ELSE "rows"
    /\ UNCHANGED <<batches, batch_no, splitVars, chunkedVars, inferVars>>

\* read_next_batch() raises StopIteration: still_reading = False, the loop ends
EngineExhausted ==
    /\ pcR = "next"
    /\ batch_no = Len(batches)
    /\ pcR' = "done"
    /\ UNCHANGED <<batches, batch_no, batch_rows, records, splitVars, chunkedVars, inferVars>>

NextRead == ReadNextBatch \/ YieldRow \/ EngineExhausted

SpecRead == InitRead /\ [][NextRead]_vars

(* --------------------------- _get_schema_dict -------------------------- *)

\* longest stream handed to schema inference
MaxFileLen == 4
\* longest stream in the runs followed to their end under fairness
MaxTimedFileLen == 2
\* self._read_options()["block_size"], scaled to 1 byte: the sample is twice that
BLOCK_SIZE == 1
\* timeout=4 and max_timeout=60 of the call of run_in_external_process
INITIAL_TIMEOUT == 4
MAX_TIMEOUT == 60

DELIMITER == ","
QUOTE_CHAR == "\""
Char == {"a", " ", DELIMITER, QUOTE_CHAR, NL}
Files == UNION {[1..n -> Char] : n \in 0..MaxFileLen}
\* run times of the isolated run: within the first timeout, within the
\* second only, within neither
Durations == {1, 30, 100}

\* file.readline(): up to and including the first terminator
ReadLine(f) == IF Find(f) = -1 THEN f ELSE Take(f, Find(f) + 1)

\* csv.reader over the one line, a character at a time: st is the reader's
\* state, field the field being collected, fields the fields saved. The
\* dialect is the default one but for delimiter and quotechar (doublequote,
\* no escapechar, not strict)
RECURSIVE CsvRead(_, _, _, _, _)
CsvRead(line, i, st, field, fields) ==
    IF i > Len(line)
    THEN \* end of the line, then end of the input
         IF st \in {"START_RECORD", "EAT_CRNL"} THEN fields
         ELSE Append(fields, field)
    ELSE LET c == line[i] IN
         IF st = "START_RECORD" /\ c = NL
         THEN CsvRead(line, i + 1, "EAT_CRNL", field, fields)
         ELSE IF st \in {"START_RECORD", "START_FIELD"}
         THEN IF c = NL THEN CsvRead(line, i + 1, "EAT_CRNL", <<>>, Append(fields, field))
              ELSE IF c = QUOTE_CHAR THEN CsvRead(line, i + 1, "IN_QUOTED_FIELD", field, fields)
              ELSE IF c = DELIMITER
                   THEN CsvRead(line, i + 1, "START_FIELD", <<>>, Append(fields, field))
              ELSE CsvRead(line, i + 1, "IN_FIELD", Append(field, c), fields)
         ELSE IF st = "IN_FIELD"
         THEN IF c = NL THEN CsvRead(line, i + 1, "EAT_CRNL", <<>>, Append(fields, field))
              ELSE IF c = DELIMITER
                   THEN CsvRead(line, i + 1, "START_FIELD", <<>>, Append(fields, field))
              ELSE CsvRead(line, i + 1, "IN_FIELD", Append(field, c), fields)
         ELSE IF st = "IN_QUOTED_FIELD"
         THEN IF c = QUOTE_CHAR
              THEN CsvRead(line, i + 1, "QUOTE_IN_QUOTED_FIELD", field, fields)
              ELSE CsvRead(line, i + 1, "IN_QUOTED_FIELD", Append(field, c), fields)
         ELSE IF st = "QUOTE_IN_QUOTED_FIELD"
         THEN IF c = QUOTE_CHAR
              THEN CsvRead(line, i + 1, "IN_QUOTED_FIELD", Append(field, c), fields)
              ELSE IF c = DELIMITER
                   THEN CsvRead(line, i + 1, "START_FIELD", <<>>, Append(fields, field))
              ELSE IF c = NL
                   THEN CsvRead(line, i + 1, "EAT_CRNL", <<>>, Append(fields, field))
              ELSE CsvRead(line, i + 1, "IN_FIELD", Append(field, c), fields)
         ELSE \* EAT_CRNL: only terminators may follow
              CsvRead(line, i + 1, "EAT_CRNL", field, fields)

\* next(csv.reader([line], delimiter=delimiter, quotechar=quote_char))
CsvFields(line) == CsvRead(line, 1, "START_RECORD", <<>>, <<>>)

Whitespace == {" ", NL}
\* str.strip()
RECURSIVE Strip(_)
Strip(t) ==
    IF t = <<>> THEN t
    ELSE IF Head(t) \in Whitespace THEN Strip(Tail(t))
    ELSE IF t[Len(t)] \in Whitespace THEN Strip(SubSeq(t, 1, Len(t) - 1))
    ELSE t

\* the schema dict built from the field names as they are, not stripped
SchemaDictNotStripped(f) ==
    LET field_names == CsvFields(ReadLine(f)) IN
    [schema |-> [name \in Range(field_names) |-> "string"],
     pos    |-> Len(ReadLine(f))]

\* _get_schema_dict_without_inference: the dict returned, and where it leaves the stream
SchemaDictWithoutInference(f) ==
    LET field_names == CsvFields(ReadLine(f)) IN
    [schema |-> [name \in {Strip(field_names[i]) : i \in 1..Len(field_names)} |-> "string"],
     pos    |-> Len(ReadLine(f))]

\* what the isolated run returns when it completes: the engine's schema of the sample
EngineSchema(file_sample) ==
    [name \in Range(CsvFields(ReadLine(file_sample))) |-> "inferred"]

InitInfer ==
    /\ file \in Files
    /\ file_pos = 0
    /\ infer_datatypes \in BOOLEAN
    /\ dur \in Durations \X Durations
    /\ worker_fails \in BOOLEAN
    /\ attempts = 0
    /\ timeout = 0
    /\ pcI = "call"
    /\ result = NoSchema
    /\ source = <<>>
    /\ SplitterCreated
    /\ ChunkedOff
    /\ ReaderOff

\* _get_schema_dict with the test of infer_datatypes inverted
GetSchemaDictInverted ==
    /\ pcI = "call"
    /\ IF infer_datatypes
       THEN /\ result' = SchemaDictWithoutInference(file).schema
            /\ file_pos' = SchemaDictWithoutInference(file).pos
            /\ pcI' = "returned"
            /\ UNCHANGED <<attempts, timeout>>
       ELSE /\ file_pos' = Len(Read(file, 0, BLOCK_SIZE * 2))
            /\ attempts' = 1
            /\ timeout' = INITIAL_TIMEOUT
            /\ pcI' = "running"
            /\ UNCHANGED result
    /\ UNCHANGED <<file, infer_datatypes, dur, worker_fails, splitVars, chunkedVars, readVars>>

\* _get_schema_dict up to the start of the first isolated run
GetSchemaDict ==
    /\ pcI = "call"
    /\ IF ~infer_datatypes
       THEN /\ result' = SchemaDictWithoutInference(file).schema
            /\ file_pos' = SchemaDictWithoutInference(file).pos
            /\ pcI' = "returned"
            /\ UNCHANGED <<attempts, timeout>>
       ELSE /\ file_pos' = Len(Read(file, 0, BLOCK_SIZE * 2))
            /\ attempts' = 1
            /\ timeout' = INITIAL_TIMEOUT
            /\ pcI' = "running"
            /\ UNCHANGED result
    /\ UNCHANGED <<file, infer_datatypes, dur, worker_fails, splitVars, chunkedVars, readVars>>

\* run_in_external_process: the isolated run answers within the timeout,
\* with a schema or with the exception it ended with
RunCompletes ==
    /\ pcI = "running"
    /\ dur[attempts] <= timeout
    /\ IF worker_fails
       THEN pcI' = "raised" /\ UNCHANGED result
       ELSE /\ pcI' = "returned"
            /\ result' = EngineSchema(Read(file, 0, BLOCK_SIZE * 2))
    /\ UNCHANGED <<file, file_pos, infer_datatypes, dur, worker_fails, attempts, timeout,
                   splitVars, chunkedVars, readVars>>

\* run_in_external_process: the first run timed out; it is abandoned and one
\* more is started with the timeout raised to max_timeout
RunRetried ==
    /\ pcI = "running"
    /\ dur[attempts] > timeout
    /\ timeout < MAX_TIMEOUT
    /\ attempts' = attempts + 1
    /\ timeout' = MAX_TIMEOUT
    /\ UNCHANGED <<file, file_pos, infer_datatypes, dur, worker_fails, pcI, result,
                   splitVars, chunkedVars, readVars>>

\* run_in_external_process: the run with the timeout at max_timeout timed out: TimeoutError
RunTimedOut ==
    /\ pcI = "running"
    /\ dur[attempts] > timeout
    /\ timeout >= MAX_TIMEOUT
    /\ pcI' = "timeout_error"
    /\ UNCHANGED <<file, file_pos, infer_datatypes, dur, worker_fails, attempts, timeout,
                   result, splitVars, chunkedVars, readVars>>

NextInfer == GetSchemaDict \/ RunCompletes \/ RunRetried \/ RunTimedOut

SpecInfer == InitInfer /\ [][NextInfer]_vars

\* the same calls over the streams of at most MaxTimedFileLen bytes, every
\* step of a call that can be taken eventually taken: the caller's thread
\* runs on, and the wait for the isolated run ends with its answer or its timeout
InitInferTimed == InitInfer /\ Len(file) <= MaxTimedFileLen

SpecInferFair == InitInferTimed /\ [][NextInfer]_vars /\ WF_vars(NextInfer)

(* ============================ the claims ============================== *)

\* the header line of a stream: the bytes before its first terminator
HeaderLine(src) == IF Find(src) = -1 THEN src ELSE Take(src, Find(src))
\* the bytes that follow the header line
BodyOf(src) == Drop(src, Len(HeaderLine(src)))
\* a chunk's content with its leading copy of the header line removed
StripHeader(c, h) == IF Take(c, Len(h)) = h THEN Drop(c, Len(h)) ELSE c
Reassembled == Concat([i \in 1..Len(chunks) |-> StripHeader(chunks[i], HeaderLine(source))])
\* offset i of the source is a record boundary: just before a terminator, or the end
Boundary(i) == i = Len(source) \/ source[i + 1] = NL
Aligned(c) ==
    \E s \in 0..Len(source) : \E e \in s..Len(source) :
        /\ c = HeaderLine(source) \o SubSeq(source, s + 1, e)
        /\ Boundary(s)
        /\ Boundary(e)
\* 1-based offset of the last terminator of c, 0 when it has none
LastNL(c) ==
    IF \E i \in 1..Len(c) : c[i] = NL
    THEN CHOOSE i \in 1..Len(c) : c[i] = NL /\ \A j \in (i + 1)..Len(c) : c[j] # NL
    ELSE 0
\* the source holds a run of more than MAX_CHUNK_SIZE bytes with no terminator in it
LongLine ==
    \E i \in 0..Len(source) : \E j \in i..Len(source) :
        /\ j - i > MAX_CHUNK_SIZE
        /\ \A k \in (i + 1)..j : source[k] # NL
IsPrefix(s, t) == Len(s) <= Len(t) /\ SubSeq(t, 1, Len(s)) = s

\* C1: once the chunk sequence has ended, the chunks with their header copies
\* removed, concatenated, are exactly the bytes that follow the header line.
C1_Reassembly == gen = "returned" => Reassembled = BodyOf(source)

\* C2: every chunk yielded is the header line followed by a slice of the
\* source that starts and ends on a record boundary.
C2_RecordAligned == \A i \in 1..Len(chunks) : Aligned(chunks[i])

\* C3: once the chunk sequence has ended, the rows read chunk after chunk are
\* the rows read from the whole stream, in the same order.
C3_SameRecords ==
    gen = "returned" => Concat([i \in 1..Len(chunks) |-> Rows(chunks[i])]) = Rows(source)

\* C5 as stated: no chunk is larger than MAX_CHUNK_SIZE.
C5_AtMostMax == \A i \in 1..Len(chunks) : Len(chunks[i]) <= MAX_CHUNK_SIZE

\* C5 as amended: in every chunk the bytes up to and including its last
\* terminator are fewer than MAX_CHUNK_SIZE plus one block plus the writer's
\* buffer; only the chunk's last record reaches beyond that.
C5_SoftLimit ==
    \A i \in 1..Len(chunks) :
        LastNL(chunks[i]) < MAX_CHUNK_SIZE + BLOCK_READ + WRITE_BUFFER

C5_Witness ==
    \E i \in 1..Len(chunks) :
        Len(chunks[i]) > MAX_CHUNK_SIZE /\ LastNL(chunks[i]) > MAX_CHUNK_SIZE

\* C8 as stated: a source holding a record longer than MAX_CHUNK_SIZE never
\* has its chunk sequence end normally.
C8_AnyLongLineRaises == LongLine => gen # "returned"

\* C8 as amended: a header line longer than MAX_CHUNK_SIZE makes the splitter
\* raise before any chunk is yielded, and the splitter raises only on a source
\* that holds MAX_CHUNK_SIZE bytes in a row without a terminator.
C8_HeaderTooLong ==
    /\ Len(HeaderLine(source)) > MAX_CHUNK_SIZE =>
           /\ gen \in {"created", "raised"}
           /\ chunks = <<>>
    /\ gen = "raised" =>
           \E i \in 0..Len(source) :
               /\ i + MAX_CHUNK_SIZE <= Len(source)
               /\ \A k \in (i + 1)..(i + MAX_CHUNK_SIZE) : source[k] # NL

C8_Witness == gen = "raised" /\ Len(HeaderLine(source)) > MAX_CHUNK_SIZE

\* C9: once an error has left the chunked branch, or the caller has closed it,
\* the temporary file is gone, the splitter is not resumed (no further chunk
\* is created) and the records yielded stay as they were.
C9_ErrorStops ==
    /\ [](pcS \in {"failed", "closed"} => ~temp_exists)
    /\ [][(pcS \in {"failed", "closed"}) => (chunks' = chunks /\ gen' = gen /\ out' = out)]_vars
    /\ [][IsPrefix(out, out')]_vars

C9_Witness ==
    /\ pcS = "failed"
    /\ gen = "suspended"
    /\ chunk # <<>>
    /\ Len(chunks) = 2
    /\ out # <<>>
    /\ ~temp_exists

\* what is left for the splitter to do: the unread bytes of the source, plus
\* one while the last block read was not empty
Measure == (Len(source) - pos) + (IF chunk # <<>> THEN 1 ELSE 0)

\* C10: the chunk sequence is finite. Every chunk after the first consumed a
\* byte of the source or is the last one; from one chunk to the next the
\* measure of the work left strictly decreases; the splitter resumed after the
\* chunk built at the end of the stream returns; and the run is never cut
\* short by the bound on the number of chunks.
C10_Termination ==
    /\ [](\A i \in 2..Len(chunks) :
            \/ marks[i][2] > marks[i][1]
            \/ i = Len(chunks) /\ chunk = <<>>)
    /\ [][(gen = "suspended" /\ gen' = "suspended") => Measure' < Measure]_vars
    /\ [][(gen = "suspended" /\ chunk = <<>>) => gen' = "returned"]_vars
    /\ [](gen = "suspended" => chunk_number < MaxChunks)

C10_Witness == gen = "returned" /\ Len(chunks) >= 3 /\ marks[2][2] > marks[2][1]

\* rows of a batch, and of the batches before batch j
NumRows(batch) == Len(batch.columns[1])
RECURSIVE RowsBefore(_)
RowsBefore(j) == IF j <= 1 THEN 0 ELSE RowsBefore(j - 1) + NumRows(batches[j - 1])
TotalRows == RowsBefore(Len(batches) + 1)

\* C4: the k-th record yielded is row r of batch j, where k counts the rows of
\* the earlier batches and then r; its keys are the column names of batch j
\* and under each of them it holds that column's r-th value. Once the engine
\* is exhausted every row has been yielded, and nothing is yielded after.
C4_OneRecordPerRow ==
    /\ [](/\ Len(records) <= TotalRows
          /\ \A j \in 1..Len(batches) : \A r \in 1..NumRows(batches[j]) :
                LET k == RowsBefore(j) + r IN
                k <= Len(records) =>
                    /\ DOMAIN records[k] = Range(batches[j].schema)
                    /\ \A i \in 1..Len(batches[j].schema) :
                          records[k][batches[j].schema[i]] = batches[j].columns[i][r]
          /\ pcR = "done" => Len(records) = TotalRows)
    /\ [][pcR = "done" => records' = records]_vars

C4_Witness ==
    /\ pcR = "done"
    /\ Len(batches) = 2
    /\ Len(records) = 3
    /\ batches[1].schema = <<"id", "name">>
    /\ batches[2].schema = <<"id">>
    /\ NumRows(batches[1]) = 2
    /\ records[1] # records[2]

\* the isolated run completes neither within 4 nor, started again, within 60
OutsideEnvelope == dur[1] > 4 /\ dur[2] > 60
Ended == pcI \in {"returned", "raised", "timeout_error"}

\* C6: with inference enabled, a call whose isolated run stays outside the
\* timeout envelope ends, and ends with the timeout error: no schema is
\* returned, and the run was started twice, never more.
C6_TimeoutEnvelope ==
    /\ [](attempts <= 2)
    /\ []((infer_datatypes /\ OutsideEnvelope /\ Ended) =>
             (pcI = "timeout_error" /\ result = NoSchema /\ attempts = 2))
    /\ (infer_datatypes /\ OutsideEnvelope) ~> (pcI = "timeout_error")

C6_Witness ==
    /\ pcI = "timeout_error"
    /\ infer_datatypes
    /\ OutsideEnvelope
    /\ attempts = 2
    /\ file # <<>>

\* the first line of the stream without its terminator, and its length with it
FirstLine(f) == HeaderLine(f)
FirstLineLen(f) == IF Len(HeaderLine(f)) < Len(f) THEN Len(HeaderLine(f)) + 1 ELSE Len(f)
\* the pieces of a line between its delimiters
Cuts(l) == {0, Len(l) + 1} \cup {i \in 1..Len(l) : l[i] = DELIMITER}
Pieces(l) ==
    {SubSeq(l, a + 1, b - 1) : <<a, b>> \in
        {ab \in Cuts(l) \X Cuts(l) :
            ab[1] < ab[2] /\ ~\E x \in Cuts(l) : ab[1] < x /\ x < ab[2]}}
Trimmed(k) == k = <<>> \/ (k[1] \notin Whitespace /\ k[Len(k)] \notin Whitespace)

\* C7: with inference disabled the call returns without an isolated run
\* started, having read the first line and no more; every key of the schema is
\* trimmed and mapped to the string type; for a header line without quotes the
\* keys are the trimmed pieces between its delimiters; what follows the first
\* line changes nothing.
C7_StringSchema ==
    (pcI = "returned" /\ ~infer_datatypes) =>
        /\ attempts = 0
        /\ file_pos = FirstLineLen(file)
        /\ \A k \in DOMAIN result : result[k] = "string" /\ Trimmed(k)
        /\ (\A i \in 1..Len(FirstLine(file)) : FirstLine(file)[i] # QUOTE_CHAR) =>
               DOMAIN result =
                   IF FirstLine(file) = <<>> THEN {}
                   ELSE {Strip(x) : x \in Pieces(FirstLine(file))}
        /\ result = SchemaDictWithoutInference(FirstLine(file)).schema

C7_Witness ==
    /\ pcI = "returned"
    /\ ~infer_datatypes
    /\ file_pos < Len(file)
    /\ file[1] = " "
    /\ \E k \in DOMAIN result : k # <<>>

====
